---- MODULE Spec2Model ----
(***************************************************************************)
(* A model of the ComboBox component                                       *)
(* (src/components/Autocomplete/components/ComboBox/ComboBox.tsx).         *)
(*                                                                         *)
(* The variables are the component's props and its useState cells as they  *)
(* stand once an event's handler has run and React has re-rendered until   *)
(* no effect schedules a further update.  One action is one event: the     *)
(* handler, then every render and effect it triggers.                      *)
(*                                                                         *)
(* Encoding of JavaScript values:                                          *)
(*   - `undefined` is None (the empty tuple), a present value x is Some(x);*)
(*   - an entry object is a record; `ref` is its object identity.  The     *)
(*     entries of the current navigable list have refs 1..length; an       *)
(*     object of a discarded list that is still referenced has ref 0;      *)
(*   - `active` is TRUE exactly when the object's `active` field is true   *)
(*     (unset and false are both FALSE);                                   *)
(*   - a ReactNode prop (contentBefore, contentAfter, emptyState) is its   *)
(*     truthiness;                                                         *)
(*   - an array of strings is the sequence of its contents.                *)
(***************************************************************************)
EXTENDS Integers, Sequences, FiniteSets, TLC

\* ---------------------------------------------------------------- bounds
MaxOptions == 1
Values == {"A", "B"}
Id == "ComboBox1"

None == <<>>
Some(x) == <<x>>
IsSome(o) == Len(o) = 1
Get(o) == o[1]

\* ------------------------------------------------------ caller's inputs
\* An OptionDescriptor the caller supplies: it has a value, no onAction.
OptionDescriptor(v) ==
    [label |-> v, value |-> Some(v), onAction |-> FALSE, active |-> FALSE]

\* An ActionListItemDescriptor: no value; onAction is optional.
ActionDescriptor(name, hasHandler) ==
    [label |-> name, value |-> None, onAction |-> hasHandler, active |-> FALSE]

SeqsUpTo(S, n) == UNION {[1..k -> S] : k \in 0..n}

NoRepeats(s) == \A i, j \in 1..Len(s) : i # j => s[i] # s[j]

\* `options`: up to MaxOptions items, their values unique within the list.
OptionLists ==
    {[p \in 1..Len(vs) |-> OptionDescriptor(vs[p])] :
        vs \in {s \in SeqsUpTo(Values, MaxOptions) : NoRepeats(s)}}

ActionsBeforeLists == {None, Some(<<ActionDescriptor("X", TRUE)>>)}
ActionsAfterLists == {None, Some(<<ActionDescriptor("Y", FALSE)>>)}

\* string[] without repeated values
SelectedLists == {s \in SeqsUpTo(Values, Cardinality(Values)) : NoRepeats(s)}

\* <<contentBefore, contentAfter, emptyState>>: none of them, or one of them.
ContentChoices ==
    {<<FALSE, FALSE, FALSE>>, <<TRUE, FALSE, FALSE>>,
     <<FALSE, TRUE, FALSE>>, <<FALSE, FALSE, TRUE>>}

VARIABLES
    \* props
    options, selected, allowMultiple, actionsBefore, actionsAfter,
    contentBefore, contentAfter, emptyState,
    \* useState cells
    selectedOption, selectedIndex, selectedOptions, navigableOptions,
    popoverActive, popoverWasActive,
    \* history: the last event, the arguments of its onSelect calls, the
    \* number of its onAction calls, and the contents its handler left in the
    \* array object that was `selected` when the event began
    lastEvent, onSelectArgs, onActionCalls, callerArray,
    \* history: the length of the current run of DownArrow events that began
    \* at the initial cursor (0: no such run)
    downStreak,
    \* history: the cursor before a DownArrow on a non-empty list, while the
    \* last events are that DownArrow ("down") or it and an UpArrow ("downUp")
    roundTrip,
    \* history: the last event began with the panel closed, the was-active
    \* memory set and the navigable list empty
    fromForcedClose,
    \* history: after a change of the list props that arrived with an entry
    \* highlighted, that entry, its index, and its 0-based position in the
    \* rebuilt list (-1: it is not there any more); none after other events
    rebuild,
    \* history: the panel was closed by Escape, by blur or by a single-select
    \* commit, and no focus or activator click has happened since
    dismissed

props == <<options, selected, allowMultiple, actionsBefore, actionsAfter,
           contentBefore, contentAfter, emptyState>>
state == <<selectedOption, selectedIndex, selectedOptions, navigableOptions,
           popoverActive, popoverWasActive>>
history == <<lastEvent, onSelectArgs, onActionCalls, callerArray, downStreak,
             roundTrip, fromForcedClose, rebuild, dismissed>>
vars == <<props, state, history>>

\* ------------------------------------------------------- array helpers
\* array[i] with a 0-based JavaScript index; out of range is undefined.
\* The result is the object (its identity and fields), not a copy.
Handle(e) == [ref |-> e.ref, label |-> e.label, value |-> e.value,
              onAction |-> e.onAction, id |-> e.id]

At(nav, i) == IF i >= 0 /\ i < Len(nav) THEN Some(Handle(nav[i + 1])) ELSE None

\* Array.prototype.includes / indexOf on objects: by identity.
Includes(nav, opt) == \E p \in 1..Len(nav) : nav[p].ref = opt.ref

IndexOf(nav, opt) ==
    IF Includes(nav, opt)
    THEN (CHOOSE p \in 1..Len(nav) :
            /\ nav[p].ref = opt.ref
            /\ \A r \in 1..(p - 1) : nav[r].ref # opt.ref) - 1
    ELSE -1

\* option.active = b, on the object `opt` refers to (when it is in `nav`;
\* an object outside the list is referenced by nothing that reads `active`).
SetActive(nav, opt, b) ==
    [p \in 1..Len(nav) |->
        IF IsSome(opt) /\ nav[p].ref = Get(opt).ref
        THEN [nav[p] EXCEPT !.active = b] ELSE nav[p]]

\* ------------------------------------------------------ pure functions
\* Mutant: positions in the ids are counted from 1.
assignOptionIds_OneBased(opts, id) ==
    [p \in 1..Len(opts) |->
        [ref |-> p, label |-> opts[p].label, value |-> opts[p].value,
         onAction |-> opts[p].onAction, active |-> opts[p].active,
         id |-> <<id, p>>]]

assignOptionIds(opts, id) ==
    [p \in 1..Len(opts) |->
        [ref |-> p, label |-> opts[p].label, value |-> opts[p].value,
         onAction |-> opts[p].onAction, active |-> opts[p].active,
         id |-> <<id, p - 1>>]]

isOption(navigableOption) == IsSome(navigableOption.value)

\* The body of the list-rebuild effect: concat what is defined, assign ids.
BuildNavigableOptions(P) ==
    LET n0 == <<>>
        n1 == IF IsSome(P.actionsBefore) THEN n0 \o Get(P.actionsBefore) ELSE n0
        n2 == n1 \o P.options
        n3 == IF IsSome(P.actionsAfter) THEN n2 \o Get(P.actionsAfter) ELSE n2
    IN assignOptionIds(n3, Id)

\* ------------------------------------------------------------ records
\* P: the props of a render.  c: the state a render's closures captured.
\* q: the updates queued so far (setState calls), q.navigableOptions being the
\* rendered list's objects with their current `active` flags, q.newNav the
\* argument of a queued setNavigableOptions, q.selected the current contents of
\* the array object the caller passed as `selected`.
Props == [options |-> options, selected |-> selected,
          allowMultiple |-> allowMultiple, actionsBefore |-> actionsBefore,
          actionsAfter |-> actionsAfter, contentBefore |-> contentBefore,
          contentAfter |-> contentAfter, emptyState |-> emptyState]

State == [selectedOption |-> selectedOption, selectedIndex |-> selectedIndex,
          selectedOptions |-> selectedOptions,
          navigableOptions |-> navigableOptions,
          popoverActive |-> popoverActive,
          popoverWasActive |-> popoverWasActive,
          newNav |-> None, selected |-> selected, callerArray |-> selected,
          onSelectArgs |-> <<>>, onActionCalls |-> 0]

\* ------------------------------------------------------------ callbacks
forcePopoverActiveTrue(q) == [q EXCEPT !.popoverActive = TRUE]
forcePopoverActiveFalse(q) == [q EXCEPT !.popoverActive = FALSE]
setPopoverWasActive(q, b) == [q EXCEPT !.popoverWasActive = b]

\* Mutant: closing keeps the was-active memory.
handlePopoverClose_KeepsMemory(c, q) == forcePopoverActiveFalse(q)

handlePopoverClose(c, q) == setPopoverWasActive(forcePopoverActiveFalse(q), FALSE)

\* Mutant: the previously highlighted entry keeps its active flag.
visuallyUpdateSelectedOption_KeepOld(nav, newOption, oldOption) ==
    SetActive(nav, newOption, TRUE)

visuallyUpdateSelectedOption(nav, newOption, oldOption) ==
    SetActive(SetActive(nav, oldOption, FALSE), newOption, TRUE)

resetVisuallySelectedOptions(c, q) ==
    [q EXCEPT !.selectedOption = None,
              !.selectedIndex = -1,
              !.navigableOptions =
                  [p \in 1..Len(@) |-> [@[p] EXCEPT !.active = FALSE]]]

selectOptionAtIndex(c, q, newOptionIndex) ==
    IF Len(c.navigableOptions) = 0
    THEN q
    ELSE LET newSelectedOption == At(c.navigableOptions, newOptionIndex)
         IN [q EXCEPT !.navigableOptions =
                          visuallyUpdateSelectedOption(@, newSelectedOption,
                                                       c.selectedOption),
                      !.selectedOption = newSelectedOption,
                      !.selectedIndex = newOptionIndex]

\* Mutant: the wrap-around test is off by one (> for >=).
selectNextOption_LateWrap(c, q) ==
    IF Len(c.navigableOptions) = 0
    THEN q
    ELSE LET newIndex == IF c.selectedIndex + 1 > Len(c.navigableOptions)
                         THEN 0 ELSE c.selectedIndex + 1
         IN selectOptionAtIndex(c, q, newIndex)

selectNextOption(c, q) ==
    IF Len(c.navigableOptions) = 0
    THEN q
    ELSE LET newIndex == IF c.selectedIndex + 1 >= Len(c.navigableOptions)
                         THEN 0 ELSE c.selectedIndex + 1
         IN selectOptionAtIndex(c, q, newIndex)

\* Mutant: only a negative index wraps (< for <=).
selectPreviousOption_NoWrapAtZero(c, q) ==
    IF Len(c.navigableOptions) = 0
    THEN q
    ELSE LET newIndex == IF c.selectedIndex < 0
                         THEN Len(c.navigableOptions) - 1
                         ELSE c.selectedIndex - 1
         IN selectOptionAtIndex(c, q, newIndex)

selectPreviousOption(c, q) ==
    IF Len(c.navigableOptions) = 0
    THEN q
    ELSE LET newIndex == IF c.selectedIndex <= 0
                         THEN Len(c.navigableOptions) - 1
                         ELSE c.selectedIndex - 1
         IN selectOptionAtIndex(c, q, newIndex)

\* Mutant: onSelect is called twice.
selectOptions_Twice(c, q, P, sel) ==
    LET q1 == [q EXCEPT !.onSelectArgs = Append(Append(@, sel), sel)]
    IN IF ~P.allowMultiple
       THEN setPopoverWasActive(
                forcePopoverActiveFalse(resetVisuallySelectedOptions(c, q1)),
                FALSE)
       ELSE q1

\* Mutant: a single-select commit leaves the cursor and the panel alone.
selectOptions_NoReset(c, q, P, sel) ==
    [q EXCEPT !.onSelectArgs = Append(@, sel)]

\* onSelect(selected) is the caller's: the model records the argument.
selectOptions(c, q, P, sel) ==
    LET q1 == [q EXCEPT !.onSelectArgs = Append(@, sel)]
    IN IF ~P.allowMultiple
       THEN setPopoverWasActive(
                forcePopoverActiveFalse(resetVisuallySelectedOptions(c, q1)),
                FALSE)
       ELSE q1

\* Array.prototype.splice(indexOf(x), 1) and push(x), on the array itself.
Splice1(arr, x) ==
    LET i == CHOOSE k \in 1..Len(arr) :
                 arr[k] = x /\ \A r \in 1..(k - 1) : arr[r] # x
    IN SubSeq(arr, 1, i - 1) \o SubSeq(arr, i + 1, Len(arr))

ArrIncludes(arr, x) == \E k \in 1..Len(arr) : arr[k] = x

\* The array object the caller passed as `selected` now holds `arr`.  The
\* selectedOptions cell holds that same object (SyncSelectedEffect stored it).
MutateSelected(q, arr) ==
    [q EXCEPT !.selected = arr, !.selectedOptions = arr, !.callerArray = arr]

\* Mutant: a value that is already selected is not toggled off.
handleSelection_NoToggle(c, q, P, newSelected) ==
    IF P.allowMultiple
    THEN LET arr == Append(q.selected, newSelected)
         IN selectOptions(c, MutateSelected(q, arr), P, arr)
    ELSE selectOptions(c, q, P, <<newSelected>>)

\* `newlySelectedOptions = selected` aliases the caller's array: splice and
\* push change that array; only the last branch makes a new one.
handleSelection(c, q, P, newSelected) ==
    IF ArrIncludes(q.selected, newSelected)
    THEN LET arr == Splice1(q.selected, newSelected)
         IN selectOptions(c, MutateSelected(q, arr), P, arr)
    ELSE IF P.allowMultiple
    THEN LET arr == Append(q.selected, newSelected)
         IN selectOptions(c, MutateSelected(q, arr), P, arr)
    ELSE selectOptions(c, q, P, <<newSelected>>)

\* OptionList's click handler: the selection after committing `v`, as a new
\* array (toggle off, append under multi-select, replace under single-select).
OptionListOnChange(sel, v, multi) ==
    IF ArrIncludes(sel, v) THEN Splice1(sel, v)
    ELSE IF multi THEN Append(sel, v)
    ELSE <<v>>

\* Mutant: Enter does not test that the popover is active.
handleEnter_IgnoresPopover(c, q, P) ==
    IF IsSome(c.selectedOption)
    THEN IF isOption(Get(c.selectedOption))
         THEN handleSelection(c, q, P, Get(Get(c.selectedOption).value))
         ELSE IF Get(c.selectedOption).onAction
              THEN [q EXCEPT !.onActionCalls = @ + 1]
              ELSE q
    ELSE q

handleEnter(c, q, P) ==
    IF c.popoverActive /\ IsSome(c.selectedOption)
    THEN IF isOption(Get(c.selectedOption))
         THEN handleSelection(c, q, P, Get(Get(c.selectedOption).value))
         ELSE IF Get(c.selectedOption).onAction
              THEN [q EXCEPT !.onActionCalls = @ + 1]
              ELSE q
    ELSE q

handleFocus(c, q) == setPopoverWasActive(forcePopoverActiveTrue(q), TRUE)

\* Mutant: blur does not reset the cursor.
handleBlur_NoReset(c, q) == setPopoverWasActive(forcePopoverActiveFalse(q), FALSE)

\* Mutant: blur keeps the was-active memory.
handleBlur_KeepsMemory(c, q) ==
    resetVisuallySelectedOptions(c, forcePopoverActiveFalse(q))

handleBlur(c, q) ==
    resetVisuallySelectedOptions(
        c, setPopoverWasActive(forcePopoverActiveFalse(q), FALSE))

handleClick(c, q) == IF ~c.popoverActive THEN forcePopoverActiveTrue(q) ELSE q

\* Mutant: the cursor is cleared whenever the highlighted object is gone.
updateIndexOfSelectedOption_AlwaysReset(c, q, newOptions) ==
    IF IsSome(c.selectedOption) /\ Includes(newOptions, Get(c.selectedOption))
    THEN selectOptionAtIndex(c, q, IndexOf(newOptions, Get(c.selectedOption)))
    ELSE resetVisuallySelectedOptions(c, q)

\* Mutant: the index is kept also when it is past the end of the new list.
updateIndexOfSelectedOption_NoBounds(c, q, newOptions) ==
    IF IsSome(c.selectedOption) /\ Includes(newOptions, Get(c.selectedOption))
    THEN selectOptionAtIndex(c, q, IndexOf(newOptions, Get(c.selectedOption)))
    ELSE selectOptionAtIndex(c, q, c.selectedIndex)

updateIndexOfSelectedOption(c, q, newOptions) ==
    IF IsSome(c.selectedOption) /\ Includes(newOptions, Get(c.selectedOption))
    THEN selectOptionAtIndex(c, q, IndexOf(newOptions, Get(c.selectedOption)))
    ELSE IF c.selectedIndex > Len(newOptions) - 1
    THEN resetVisuallySelectedOptions(c, q)
    ELSE selectOptionAtIndex(c, q, c.selectedIndex)

\* -------------------------------------------------------------- effects
SyncSelectedEffect(c, q, P) ==
    IF c.selectedOptions # P.selected
    THEN [q EXCEPT !.selectedOptions = P.selected] ELSE q

RebuildEffect(c, q, P) == [q EXCEPT !.newNav = Some(BuildNavigableOptions(P))]

CursorEffect(c, q) == updateIndexOfSelectedOption(c, q, c.navigableOptions)

\* Mutant: the panel is never re-opened from the was-active memory.
VisibilityEffect_NoReopen(c, q, P) ==
    IF /\ Len(c.navigableOptions) = 0
       /\ ~P.contentBefore
       /\ ~P.contentAfter
       /\ ~P.emptyState
    THEN forcePopoverActiveFalse(q)
    ELSE q

VisibilityEffect(c, q, P) ==
    IF /\ Len(c.navigableOptions) = 0
       /\ ~P.contentBefore
       /\ ~P.contentAfter
       /\ ~P.emptyState
    THEN forcePopoverActiveFalse(q)
    ELSE IF c.popoverWasActive /\ Len(c.navigableOptions) # 0
    THEN forcePopoverActiveTrue(q)
    ELSE q

\* ------------------------------------------------------------ rendering
\* The state of the next render: the queued updates applied.  A queued
\* setNavigableOptions replaces the list by fresh objects, so an object of the
\* old list that selectedOption still holds is in no list any more (ref 0).
NextRender(q) ==
    IF IsSome(q.newNav)
    THEN [q EXCEPT !.navigableOptions = Get(q.newNav),
                   !.newNav = None,
                   !.selectedOption =
                       IF IsSome(@) THEN Some([Get(@) EXCEPT !.ref = 0]) ELSE @]
    ELSE q

\* React re-renders when a setState call changed a state cell (Object.is).
StateChanged(c, q) ==
    \/ IsSome(q.newNav)
    \/ q.selectedOption # c.selectedOption
    \/ q.selectedIndex # c.selectedIndex
    \/ q.selectedOptions # c.selectedOptions
    \/ q.popoverActive # c.popoverActive
    \/ q.popoverWasActive # c.popoverWasActive

\* deps: which props-derived dependencies changed since the previous render.
NoDeps == [list |-> FALSE, nav |-> FALSE, content |-> FALSE]

\* One render with state c (the previous render had state prev), then its
\* effects in declaration order, each only if one of its dependencies changed;
\* then again, until no effect changes the state.
RECURSIVE Settle(_, _, _, _)
Settle(prev, c, P, deps) ==
    LET q1 == SyncSelectedEffect(c, c, P)
        q2 == IF deps.list THEN RebuildEffect(c, q1, P) ELSE q1
        q3 == IF \/ deps.nav
                 \/ c.selectedOption # prev.selectedOption
                 \/ c.selectedIndex # prev.selectedIndex
              THEN CursorEffect(c, q2) ELSE q2
        q4 == IF \/ deps.nav
                 \/ deps.content
                 \/ c.popoverWasActive # prev.popoverWasActive
              THEN VisibilityEffect(c, q3, P) ELSE q3
    IN IF StateChanged(c, q4)
       THEN Settle(c, NextRender(q4), P,
                   [list |-> FALSE, nav |-> IsSome(q4.newNav), content |-> FALSE])
       ELSE q4

\* After a handler: React renders again only if the handler changed the state.
AfterHandler(c, q, P) ==
    IF StateChanged(c, q) THEN Settle(c, NextRender(q), P, NoDeps) ELSE q

\* The first render (every effect runs) and what follows it.
Mount(P) ==
    LET c == [selectedOption |-> None, selectedIndex |-> -1,
              selectedOptions |-> P.selected, navigableOptions |-> <<>>,
              popoverActive |-> FALSE, popoverWasActive |-> FALSE,
              newNav |-> None, selected |-> P.selected,
              callerArray |-> P.selected, onSelectArgs |-> <<>>, onActionCalls |-> 0]
    IN Settle(c, c, P, [list |-> TRUE, nav |-> TRUE, content |-> TRUE])

\* ------------------------------------------------------------- actions
\* The 0-based position in `nav` of the caller's entry that `opt` was made
\* from (same label and value), -1 if there is none.
PositionOf(nav, opt) ==
    LET same == {p \in 1..Len(nav) :
                    nav[p].label = opt.label /\ nav[p].value = opt.value}
    IN IF same = {} THEN -1 ELSE (CHOOSE p \in same : \A r \in same : p <= r) - 1

Commit(r, event) ==
    /\ selectedOption' = r.selectedOption
    /\ selectedIndex' = r.selectedIndex
    /\ selectedOptions' = r.selectedOptions
    /\ navigableOptions' = r.navigableOptions
    /\ popoverActive' = r.popoverActive
    /\ popoverWasActive' = r.popoverWasActive
    /\ selected' = r.selected
    /\ onSelectArgs' = r.onSelectArgs
    /\ onActionCalls' = r.onActionCalls
    /\ callerArray' = r.callerArray
    /\ lastEvent' = event
    /\ downStreak' =
           IF event # "down" \/ Len(navigableOptions) = 0 THEN 0
           ELSE IF selectedIndex = -1 THEN 1
           ELSE IF downStreak \in 1..Len(navigableOptions) THEN downStreak + 1
           ELSE 0
    /\ roundTrip' =
           IF event = "down" /\ Len(navigableOptions) > 0
           THEN Some([stage |-> "down", index |-> selectedIndex,
                      option |-> selectedOption])
           ELSE IF event = "up" /\ IsSome(roundTrip)
                   /\ Get(roundTrip).stage = "down"
           THEN Some([Get(roundTrip) EXCEPT !.stage = "downUp"])
           ELSE None
    /\ fromForcedClose' =
           (popoverWasActive /\ ~popoverActive /\ Len(navigableOptions) = 0)
    /\ rebuild' =
           IF event = "lists" /\ IsSome(selectedOption)
           THEN Some([index |-> selectedIndex,
                      option |-> Get(selectedOption),
                      position |-> PositionOf(r.navigableOptions,
                                              Get(selectedOption))])
           ELSE None
    /\ dismissed' =
           IF event \in {"escape", "blur"} THEN TRUE
           ELSE IF event \in {"focus", "click"} THEN FALSE
           ELSE IF Len(r.onSelectArgs) > 0 /\ ~allowMultiple THEN TRUE
           ELSE dismissed

Init ==
    /\ options \in OptionLists
    /\ actionsBefore \in ActionsBeforeLists
    /\ actionsAfter \in ActionsAfterLists
    /\ selected \in SelectedLists
    /\ allowMultiple \in BOOLEAN
    /\ \E k \in ContentChoices :
          /\ contentBefore = k[1]
          /\ contentAfter = k[2]
          /\ emptyState = k[3]
    /\ LET r == Mount(Props)
       IN /\ selectedOption = r.selectedOption
          /\ selectedIndex = r.selectedIndex
          /\ selectedOptions = r.selectedOptions
          /\ navigableOptions = r.navigableOptions
          /\ popoverActive = r.popoverActive
          /\ popoverWasActive = r.popoverWasActive
    /\ lastEvent = "mount"
    /\ onSelectArgs = <<>>
    /\ onActionCalls = 0
    /\ callerArray = selected
    /\ downStreak = 0
    /\ roundTrip = None
    /\ fromForcedClose = FALSE
    /\ rebuild = None
    /\ dismissed = FALSE

UnchangedProps ==
    UNCHANGED <<options, allowMultiple, actionsBefore, actionsAfter,
                contentBefore, contentAfter, emptyState>>

Focus ==
    /\ Commit(AfterHandler(State, handleFocus(State, State), Props), "focus")
    /\ UnchangedProps

Blur ==
    /\ Commit(AfterHandler(State, handleBlur(State, State), Props), "blur")
    /\ UnchangedProps

Click ==
    /\ Commit(AfterHandler(State, handleClick(State, State), Props), "click")
    /\ UnchangedProps

\* Escape (KeypressListener) and the Popover's onClose: handlePopoverClose.
Escape ==
    /\ Commit(AfterHandler(State, handlePopoverClose(State, State), Props), "escape")
    /\ UnchangedProps

DownArrow ==
    /\ Commit(AfterHandler(State, selectNextOption(State, State), Props), "down")
    /\ UnchangedProps

UpArrow ==
    /\ Commit(AfterHandler(State, selectPreviousOption(State, State), Props), "up")
    /\ UnchangedProps

\* What follows a handler that may have called onSelect.  The owner's
\* onSelect either stores the array it was given and passes it back as
\* `selected` in the same batch of updates (adopt), or leaves its own: the
\* `selected` prop is then still the array object the handler may have
\* spliced or pushed into, with the contents the handler left in it.
AfterSelect(c, q, P, adopt) ==
    IF adopt /\ Len(q.onSelectArgs) > 0
    THEN LET arg == q.onSelectArgs[Len(q.onSelectArgs)]
         IN Settle(c, NextRender([q EXCEPT !.selected = arg]),
                   [P EXCEPT !.selected = arg], NoDeps)
    ELSE AfterHandler(c, q, [P EXCEPT !.selected = q.selected])

\* EventListener keydown with keyCode Enter.
Enter ==
    \E adopt \in BOOLEAN :
        /\ Commit(AfterSelect(State, handleEnter(State, State, Props), Props,
                              adopt), "enter")
        /\ UnchangedProps

\* OptionList (an external collaborator) calls its onChange, which is
\* selectOptions, with the selection it computed for the clicked option.
\* The list is rendered inside the Popover, so only while it is active.
OptionClick ==
    \E p \in 1..Len(navigableOptions), adopt \in BOOLEAN :
        /\ popoverActive
        /\ isOption(navigableOptions[p])
        /\ Commit(AfterSelect(State,
                              selectOptions(State, State, Props,
                                  OptionListOnChange(selectedOptions,
                                      Get(navigableOptions[p].value),
                                      allowMultiple)),
                              Props, adopt), "optionClick")
        /\ UnchangedProps

\* The owner renders the component again with new list props (new arrays, so
\* the rebuild effect runs even when their contents are the same) and new
\* content props.
ListPropsChange ==
    \E o \in OptionLists, b \in ActionsBeforeLists, a \in ActionsAfterLists,
       k \in ContentChoices :
        LET P == [Props EXCEPT !.options = o, !.actionsBefore = b,
                               !.actionsAfter = a, !.contentBefore = k[1],
                               !.contentAfter = k[2], !.emptyState = k[3]]
            contentChanged == k # <<contentBefore, contentAfter, emptyState>>
        IN /\ options' = o
           /\ actionsBefore' = b
           /\ actionsAfter' = a
           /\ contentBefore' = k[1]
           /\ contentAfter' = k[2]
           /\ emptyState' = k[3]
           /\ allowMultiple' = allowMultiple
           /\ Commit(Settle(State, State, P,
                            [list |-> TRUE, nav |-> FALSE,
                             content |-> contentChanged]), "lists")

\* The owner renders the component again with the same list props and new
\* content props.
ContentPropsChange ==
    \E k \in ContentChoices :
        LET P == [Props EXCEPT !.contentBefore = k[1], !.contentAfter = k[2],
                               !.emptyState = k[3]]
        IN /\ k # <<contentBefore, contentAfter, emptyState>>
           /\ contentBefore' = k[1]
           /\ contentAfter' = k[2]
           /\ emptyState' = k[3]
           /\ UNCHANGED <<options, actionsBefore, actionsAfter, allowMultiple>>
           /\ Commit(Settle(State, State, P,
                            [list |-> FALSE, nav |-> FALSE, content |-> TRUE]),
                     "content")

Next ==
    \/ ListPropsChange
    \/ ContentPropsChange
    \/ Focus
    \/ Blur
    \/ Click
    \/ Escape
    \/ DownArrow
    \/ UpArrow
    \/ Enter
    \/ OptionClick

Spec == Init /\ [][Next]_vars

\* =================================================================== claims
HasAuxiliaryContent == contentBefore \/ contentAfter \/ emptyState

ActiveEntries == {p \in 1..Len(navigableOptions) : navigableOptions[p].active}

CursorIsNone == selectedIndex = -1 /\ selectedOption = None

\* The cursor is at index i of the current list: the highlighted entry is the
\* very object at that index.
CursorIsAt(i) ==
    /\ selectedIndex = i
    /\ i >= 0 /\ i < Len(navigableOptions)
    /\ IsSome(selectedOption)
    /\ Get(selectedOption) = Handle(navigableOptions[i + 1])

\* The last event committed a selection (it called onSelect).
Committed == lastEvent \in {"enter", "optionClick"} /\ Len(onSelectArgs) > 0

\* The selection a commit of v yields, stated on the contents of the set.
Without(sel, v) == SelectSeq(sel, LAMBDA x : x # v)

CommitResult(sel, v, multi) ==
    IF \E k \in 1..Len(sel) : sel[k] = v THEN Without(sel, v)
    ELSE IF multi THEN sel \o <<v>>
    ELSE <<v>>

\* C1: in every settled state the panel is open only if the navigable list is
\* non-empty or auxiliary content (contentBefore, contentAfter, emptyState)
\* is present.
C1_OpenOnlyWithContent ==
    popoverActive => (Len(navigableOptions) > 0 \/ HasAuxiliaryContent)

\* C2: the cursor index lies in [-1, length - 1], the highlighted entry is
\* none exactly when the index is -1, and for an index >= 0 the highlighted
\* entry is the object at that index of the current list.
C2_CursorConsistent ==
    /\ selectedIndex \in -1..(Len(navigableOptions) - 1)
    /\ (selectedOption = None) <=> (selectedIndex = -1)
    /\ selectedIndex >= 0 => CursorIsAt(selectedIndex)

\* C2 witness: a list rebuild left the cursor on an entry past the first.
C2_Witness ==
    lastEvent = "lists" /\ selectedIndex >= 1 /\ CursorIsAt(selectedIndex)

\* C3: at most one entry of the current navigable list has active = true.
C3_AtMostOneActive == Cardinality(ActiveEntries) <= 1

\* C3 witness: navigation moved the highlight within a list of three
\* entries and exactly one of them is active.
C3_Witness ==
    /\ lastEvent \in {"down", "up"}
    /\ Len(navigableOptions) = 3
    /\ ActiveEntries = {selectedIndex + 1}
    /\ IsSome(roundTrip) /\ Get(roundTrip).index >= 0

\* C4: a commit by Enter on a highlighted item calls onSelect once, with the
\* selection without the item's value if it was selected, else with the value
\* appended under multi-select, else with exactly the value.
C4_CommitToggles ==
    [][(lastEvent' = "enter" /\ Len(onSelectArgs') > 0) =>
          /\ IsSome(selectedOption)
          /\ isOption(Get(selectedOption))
          /\ onSelectArgs' =
                 <<CommitResult(selected, Get(Get(selectedOption).value),
                                allowMultiple)>>]_vars

\* C4 witness: under multi-select with [A] selected, B was committed and
\* onSelect received [A, B].
C4_Witness ==
    /\ lastEvent = "enter"
    /\ allowMultiple
    /\ onSelectArgs = << <<"A", "B">> >>

\* C5: after a single-select commit the cursor is (-1, none), no entry is
\* active, the panel is closed and the was-active memory is false; a
\* multi-select commit leaves the cursor index, the highlighted entry, the
\* panel flag and the was-active memory as they were.
C5_CommitFrame ==
    [][(lastEvent' \in {"enter", "optionClick"} /\ Len(onSelectArgs') > 0) =>
          IF allowMultiple
          THEN UNCHANGED <<selectedIndex, selectedOption, popoverActive,
                           popoverWasActive>>
          ELSE /\ selectedIndex' = -1
               /\ selectedOption' = None
               /\ \A p \in 1..Len(navigableOptions') :
                      ~navigableOptions'[p].active
               /\ ~popoverActive'
               /\ ~popoverWasActive']_vars

\* C5 witness: a single-select commit by Enter has closed the panel and
\* cleared the cursor.
C5_Witness ==
    /\ Committed
    /\ lastEvent = "enter"
    /\ ~allowMultiple
    /\ CursorIsNone
    /\ ~popoverActive

\* C6: a commit leaves the contents of the array the caller passed as
\* `selected` as they were before the handler ran.
C6_CallerArrayUntouched ==
    [][(lastEvent' = "enter" /\ Len(onSelectArgs') > 0) =>
          callerArray' = selected]_vars

\* C7: on a list of length N that does not change, the k-th of a run of
\* DownArrow events that starts at the initial cursor (-1) highlights index
\* k - 1 for k = 1..N, and the (N+1)-th highlights index 0 again.
C7_CyclicCoverage ==
    downStreak > 0 =>
        /\ Len(navigableOptions) > 0
        /\ downStreak <= Len(navigableOptions) + 1
        /\ CursorIsAt((downStreak - 1) % Len(navigableOptions))

\* C7 witness: the fourth DownArrow on a list of three entries wrapped to 0.
C7_Witness ==
    /\ Len(navigableOptions) = 3
    /\ downStreak = 4
    /\ selectedIndex = 0

\* The last two events were DownArrow then UpArrow, on a non-empty list.
WentDownUp == IsSome(roundTrip) /\ Get(roundTrip).stage = "downUp"

\* C8 as claimed: moveNext then movePrevious restores every cursor, the
\* no-highlight cursor (-1, none) included.
C8_InverseEverywhere ==
    WentDownUp =>
        /\ selectedIndex = Get(roundTrip).index
        /\ selectedOption = Get(roundTrip).option

\* C8 as amended: moveNext then movePrevious restores every cursor whose
\* index is in [0, N-1]; from the no-highlight cursor it ends on the last
\* entry.
C8_InverseOnHighlighted ==
    WentDownUp =>
        IF Get(roundTrip).index >= 0
        THEN /\ selectedIndex = Get(roundTrip).index
             /\ selectedOption = Get(roundTrip).option
        ELSE CursorIsAt(Len(navigableOptions) - 1)

\* C8 witness: the round trip from the last of three entries went through
\* the wrap-around and came back.
C8_Witness ==
    /\ WentDownUp
    /\ Len(navigableOptions) = 3
    /\ Get(roundTrip).index = 2
    /\ selectedIndex = 2

\* C9: Enter with the panel closed or nothing highlighted changes nothing
\* and calls neither onSelect nor an action handler; on a highlighted item of
\* an open panel it commits that item's value; on a highlighted action it
\* invokes the action's handler once (none if the action has none), does not
\* call onSelect and leaves the selection, the cursor and the panel alone.
C9_EnterDispatch ==
    [][lastEvent' = "enter" =>
          IF ~(popoverActive /\ IsSome(selectedOption))
          THEN /\ onSelectArgs' = <<>>
               /\ onActionCalls' = 0
               /\ UNCHANGED <<state, selected>>
          ELSE IF isOption(Get(selectedOption))
          THEN /\ onSelectArgs' =
                      <<CommitResult(selected, Get(Get(selectedOption).value),
                                     allowMultiple)>>
               /\ onActionCalls' = 0
          ELSE /\ onActionCalls' = (IF Get(selectedOption).onAction THEN 1 ELSE 0)
               /\ onSelectArgs' = <<>>
               /\ UNCHANGED <<state, selected>>]_vars

\* C9 witness: Enter on a highlighted action of an open panel invoked its
\* handler.
C9_Witness ==
    /\ lastEvent = "enter"
    /\ onActionCalls = 1
    /\ popoverActive
    /\ IsSome(selectedOption) /\ ~isOption(Get(selectedOption))

\* C10: a list change that makes the navigable list non-empty, arriving while
\* the panel is closed with the was-active memory set and the list empty,
\* re-opens the panel.
C10_ReopensAfterEmpty ==
    (lastEvent = "lists" /\ fromForcedClose /\ Len(navigableOptions) > 0)
        => popoverActive

\* C10 witness: such a list change has happened and the panel is open.
C10_Witness ==
    /\ lastEvent = "lists"
    /\ fromForcedClose
    /\ Len(navigableOptions) > 0
    /\ popoverActive
    /\ popoverWasActive

\* The last event was a change of the list props that arrived with an entry
\* highlighted.
Rebuilt == lastEvent = "lists" /\ IsSome(rebuild)

\* C11: when the list is rebuilt and the previously highlighted item is still
\* present but at a different position, the cursor is re-pointed to that
\* position (index = new position, highlighted entry = that item) and no
\* other entry's active flag is changed.
C11_FollowsMovedItem ==
    (/\ Rebuilt
     /\ isOption(Get(rebuild).option)
     /\ Get(rebuild).position >= 0
     /\ Get(rebuild).position # Get(rebuild).index)
        => /\ CursorIsAt(Get(rebuild).position)
           /\ ActiveEntries = {Get(rebuild).position + 1}

\* C12: when a rebuild leaves the old cursor index past the new last index,
\* the cursor is (-1, none) and no entry of the new list is active; when the
\* highlighted item is gone but the old index is in bounds, the cursor keeps
\* the index and highlights the entry now at that index.
C12_ShrinkClearsElseKeepsIndex ==
    Rebuilt =>
        IF Get(rebuild).index > Len(navigableOptions) - 1
        THEN CursorIsNone /\ ActiveEntries = {}
        ELSE Get(rebuild).position = -1 =>
                 /\ CursorIsAt(Get(rebuild).index)
                 /\ ActiveEntries = {Get(rebuild).index + 1}

\* C12 witness: the list shrank to a non-empty list shorter than the old
\* cursor index, and the cursor was cleared.
C12_Witness ==
    /\ Rebuilt
    /\ Len(navigableOptions) > 0
    /\ Get(rebuild).index > Len(navigableOptions) - 1
    /\ CursorIsNone

\* C13: a focus event opens the panel, and sets the was-active memory, only
\* if the panel is closed and the navigable list is non-empty; with an empty
\* list it leaves a closed panel closed, auxiliary content or not.
C13_FocusIsRequestOpen ==
    [][lastEvent' = "focus" =>
          /\ (popoverActive' /\ ~popoverActive) => Len(navigableOptions) > 0
          /\ (popoverWasActive' /\ ~popoverWasActive) =>
                 (~popoverActive /\ Len(navigableOptions) > 0)
          /\ (~popoverActive /\ Len(navigableOptions) = 0) => ~popoverActive'
      ]_vars

\* C14: an activator click on an open panel changes nothing; on a closed
\* panel it opens the panel only if the navigable list is non-empty, and then
\* sets the was-active memory.
C14_ClickIsRequestOpen ==
    [][lastEvent' = "click" =>
          IF popoverActive THEN UNCHANGED state
          ELSE IF Len(navigableOptions) > 0
          THEN popoverActive' /\ popoverWasActive'
          ELSE UNCHANGED <<popoverActive, popoverWasActive>>]_vars

\* C15: after a blur event the panel is closed, the was-active memory is
\* false, the cursor is (-1, none) and every entry has active = false.
C15_BlurClosesAndResets ==
    lastEvent = "blur" =>
        /\ ~popoverActive
        /\ ~popoverWasActive
        /\ CursorIsNone
        /\ ActiveEntries = {}

\* C15 witness: blur on a list of three entries.
C15_Witness ==
    /\ lastEvent = "blur"
    /\ Len(navigableOptions) = 3
    /\ dismissed
    /\ CursorIsNone

\* C16: Escape closes the panel and clears the was-active memory, and leaves
\* the cursor index, the highlighted entry, every active flag and the
\* selection unchanged.
C16_EscapeFrame ==
    [][lastEvent' = "escape" =>
          /\ ~popoverActive'
          /\ ~popoverWasActive'
          /\ onSelectArgs' = <<>>
          /\ UNCHANGED <<selectedIndex, selectedOption, navigableOptions,
                          selected, selectedOptions>>]_vars

\* C16 witness: Escape left a highlighted entry highlighted.
C16_Witness ==
    /\ lastEvent = "escape"
    /\ ~popoverActive
    /\ selectedIndex >= 0
    /\ ActiveEntries = {selectedIndex + 1}

\* C17: a change of the list props or of the auxiliary content closes an open
\* panel only when the new navigable list is empty and no auxiliary content
\* is present.
C17_ForcedCloseOnlyWhenNothingToShow ==
    [][(lastEvent' \in {"lists", "content"} /\ popoverActive /\ ~popoverActive') =>
          /\ Len(navigableOptions') = 0
          /\ ~(contentBefore' \/ contentAfter' \/ emptyState')]_vars

\* C18: onSelect is called exactly once by a commit (Enter on a highlighted
\* item of an open panel, or an option click) and never by any other event,
\* and no other event changes the selection.
C18_SelectionOnlyByCommit ==
    [][IF \/ lastEvent' = "optionClick"
          \/ /\ lastEvent' = "enter"
             /\ popoverActive
             /\ IsSome(selectedOption)
             /\ isOption(Get(selectedOption))
       THEN Len(onSelectArgs') = 1
       ELSE /\ onSelectArgs' = <<>>
            /\ UNCHANGED <<selected, selectedOptions>>]_vars

\* C18 witness: an arrow key was handled with [A, B] selected; the selection
\* is [A, B] and onSelect was not called.
C18_Witness ==
    /\ lastEvent \in {"down", "up"}
    /\ selected = <<"A", "B">>
    /\ selectedOptions = selected
    /\ onSelectArgs = <<>>

OrEmpty(o) == IF IsSome(o) THEN Get(o) ELSE <<>>

Concatenated == OrEmpty(actionsBefore) \o options \o OrEmpty(actionsAfter)

\* C19: the navigable list is the concatenation of actionsBefore, options and
\* actionsAfter (a missing action list counting as empty), its length is the
\* sum of their lengths, and the entry at 0-based position p has the id made
\* of the component's id and p.
C19_ConcatenationWithIds ==
    /\ Len(navigableOptions) =
           Len(OrEmpty(actionsBefore)) + Len(options) + Len(OrEmpty(actionsAfter))
    /\ \A p \in 1..Len(navigableOptions) :
           /\ navigableOptions[p].label = Concatenated[p].label
           /\ navigableOptions[p].value = Concatenated[p].value
           /\ navigableOptions[p].onAction = Concatenated[p].onAction
           /\ navigableOptions[p].id = <<Id, p - 1>>

\* C19 witness: a rebuild from one action before, one option and one action
\* after.
C19_Witness ==
    /\ lastEvent = "lists"
    /\ Len(navigableOptions) = 3
    /\ ~isOption(navigableOptions[1])
    /\ isOption(navigableOptions[2])
    /\ ~isOption(navigableOptions[3])
    /\ navigableOptions[3].id = <<Id, 2>>

\* C20: once the panel has been closed by Escape, by blur or by a
\* single-select commit, it is closed in every later state until a focus or
\* an activator click.
C20_StaysClosedUntilFocusOrClick == dismissed => ~popoverActive

\* C20 witness: after such a close, a list change to a non-empty list left
\* the panel closed.
C20_Witness ==
    /\ dismissed
    /\ lastEvent = "lists"
    /\ Len(navigableOptions) > 0
    /\ ~popoverActive
====
